---- MODULE Spec2Model ----
(***************************************************************************)
(* State-machine model of webui/components/decision_panel.py: the four     *)
(* render functions of the decision panel, called on demand by the host    *)
(* framework.  A display node is a record (its tag plus the properties the *)
(* code passes); a Python str argument is a sequence of characters, on     *)
(* which upper()/lower() and the number formats are computed; the text     *)
(* placed in a node is the TLA+ string with the same characters.           *)
(***************************************************************************)
EXTENDS Integers, Sequences, FiniteSets, TLC

VARIABLES pending, ret, log

vars == <<pending, ret, log>>

(*************************** bounds of the model ***************************)
\* Confidence is held in units of 1/ConfScale percent (69.999 is 69999).
ConfScale == 1000
\* Number of calls the traced specification records.
MaxLog == 3
\* Largest position size of the dense range 0..MaxSmallSize.
MaxSmallSize == 12

(***************************** Python values *******************************)
\* An optional argument: None, or a value v held as Some(v).
None == <<>>
Some(v) == <<v>>
IsNone(o) == o = None
Val(o) == o[1]

\* The None that the code leaves in a children list.
NoneNode == [tag |-> "None"]
\* The outcome of a call that raised.
AttributeError == [tag |-> "AttributeError"]

\* U+212A KELVIN SIGN, an uppercase letter whose lowercase is ASCII "k".
KelvinSign == "U+212A"
LowerLetters == <<"a","b","c","d","e","f","g","h","i","j","k","l","m",
                  "n","o","p","q","r","s","t","u","v","w","x","y","z">>
UpperLetters == <<"A","B","C","D","E","F","G","H","I","J","K","L","M",
                  "N","O","P","Q","R","S","T","U","V","W","X","Y","Z">>

IndexOf(c, letters) == CHOOSE i \in DOMAIN letters : letters[i] = c
IsIn(c, letters) == \E i \in DOMAIN letters : letters[i] = c

\* str.upper(), one character: a-z to A-Z, everything else (the Kelvin
\* sign, already uppercase) unchanged.
UpperChar(c) == IF IsIn(c, LowerLetters) THEN UpperLetters[IndexOf(c, LowerLetters)]
                ELSE c
\* str.lower(), one character: A-Z to a-z, the Kelvin sign to "k".
LowerChar(c) == IF IsIn(c, UpperLetters) THEN LowerLetters[IndexOf(c, UpperLetters)]
                ELSE IF c = KelvinSign THEN "k"
                ELSE c
Upper(s) == [i \in DOMAIN s |-> UpperChar(s[i])]
Lower(s) == [i \in DOMAIN s |-> LowerChar(s[i])]

\* The text of a character sequence.
RECURSIVE Join(_)
Join(s) == IF s = <<>> THEN "" ELSE s[1] \o Join(Tail(s))

\* Truthiness of an optional str and of an optional number.
TruthyStr(o) == ~IsNone(o) /\ Val(o) # <<>>
TruthyNum(o) == ~IsNone(o) /\ Val(o) # 0

(***************************** number formats ******************************)
DigitChars == <<"0","1","2","3","4","5","6","7","8","9">>

\* Decimal digits of a natural number, most significant first.
RECURSIVE Digits(_)
Digits(n) == IF n < 10 THEN <<DigitChars[n + 1]>>
             ELSE Append(Digits(n \div 10), DigitChars[(n % 10) + 1])

\* The grouping that leaves four digits ungrouped.
RECURSIVE GroupThousandsOff(_)
GroupThousandsOff(d) ==
    IF Len(d) <= 4 THEN d
    ELSE GroupThousandsOff(SubSeq(d, 1, Len(d) - 3)) \o <<",">>
            \o SubSeq(d, Len(d) - 2, Len(d))

\* The "," option of the format: a comma before every group of three
\* digits counted from the right.
RECURSIVE GroupThousands(_)
GroupThousands(d) ==
    IF Len(d) <= 3 THEN d
    ELSE GroupThousands(SubSeq(d, 1, Len(d) - 3)) \o <<",">>
            \o SubSeq(d, Len(d) - 2, Len(d))

\* f"{position_size:,.0f}" of an integer.
FormatThousands(n) ==
    IF n < 0 THEN <<"-">> \o GroupThousands(Digits(-n))
    ELSE GroupThousands(Digits(n))

\* Round to the nearest integer, ties to even: the ".0f" of a float whose
\* value is c / ConfScale.
RoundHalfEven(c) ==
    LET q == c \div ConfScale
        r == c % ConfScale
    IN  IF 2 * r > ConfScale THEN q + 1
        ELSE IF 2 * r < ConfScale THEN q
        ELSE IF q % 2 = 0 THEN q ELSE q + 1

\* f"{confidence:.0f}" of a non-negative confidence.
FormatFixed0(c) == Digits(RoundHalfEven(c))

(****************************** display nodes ******************************)
Text(s) == [tag |-> "str", value |-> s]
I(cls) == [tag |-> "I", className |-> cls]
Div(kids, cls) == [tag |-> "Div", children |-> kids, className |-> cls]
El(t, kids, cls) == [tag |-> t, children |-> kids, className |-> cls]

LeafTags == {"str", "I", "Hr", "Progress", "None", "Markdown"}
Kids(n) == IF n.tag \in LeafTags THEN <<>> ELSE n.children

\* Every node of a tree, the root included.
RECURSIVE SubNodes(_)
SubNodes(n) == {n} \cup UNION {SubNodes(Kids(n)[i]) : i \in DOMAIN Kids(n)}

(**************************** create_signal_card ***************************)
create_signal_card ==
    [tag |-> "Div", id |-> "signal-card-container", className |-> "signal-card mb-3",
     children |-> <<
        [tag |-> "Div", id |-> "signal-display", className |-> "signal-card-content",
         children |-> <<
            Div(<<I("fas fa-clock fa-2x mb-2"),
                  El("H5", <<Text("Awaiting Analysis")>>, "mb-1"),
                  El("P", <<Text("Start analysis to see trading signal")>>,
                     "text-muted small mb-0")>>,
                "text-center py-4")>>]>>]

(*********************** create_compact_decision_panel *********************)
create_compact_decision_panel ==
    Div(<<create_signal_card,
          Div(<<[tag |-> "Div", id |-> "agent-quick-summary",
                 children |-> <<Div(<<Text("Agent insights will appear here after analysis")>>,
                                    "text-muted small text-center py-2")>>]>>,
              "agent-quick-summary-container mb-3"),
          Div(<<El("H6", <<I("fas fa-file-alt me-2"), Text("Decision Details")>>,
                   "mb-2 text-muted"),
                Div(<<[tag |-> "Markdown", id |-> "decision-summary",
                       text |-> "Run analysis to see the decision summary",
                       className |-> "dash-markdown compact-markdown"]>>,
                    "decision-details-scroll")>>,
              "decision-details-container")>>,
        "compact-decision-panel")

(*************************** create_decision_panel *************************)
create_decision_panel ==
    El("Card",
       <<[tag |-> "CardBody",
          children |-> <<
            El("H4", <<Text("Decision Summary")>>, "mb-3"),
            [tag |-> "Hr"],
            create_signal_card,
            [tag |-> "Div",
             children |-> <<[tag |-> "Markdown", id |-> "decision-summary",
                             text |-> "Run analysis to see the final decision summary",
                             className |-> "dash-markdown"]>>,
             style |-> [height |-> "300px", overflowY |-> "auto", overflowX |-> "hidden",
                        border |-> "1px solid #334155", borderRadius |-> "5px",
                        padding |-> "15px", backgroundColor |-> "#1E293B"]]>>]>>,
       "mb-4")

(*************************** render_signal_display *************************)
\* The signal as given: the normalisation without its upper().
signal_as_given(signal) ==
    IF TruthyStr(signal) THEN Val(signal) ELSE <<"H","O","L","D">>

\* signal.upper() if signal else "HOLD"
signal_upper(signal) ==
    IF TruthyStr(signal) THEN Upper(Val(signal)) ELSE <<"H","O","L","D">>

signal_styles ==
    [BUY     |-> [color |-> "success", icon |-> "fa-arrow-up", bg |-> "rgba(16, 185, 129, 0.1)"],
     LONG    |-> [color |-> "success", icon |-> "fa-arrow-up", bg |-> "rgba(16, 185, 129, 0.1)"],
     SELL    |-> [color |-> "danger", icon |-> "fa-arrow-down", bg |-> "rgba(239, 68, 68, 0.1)"],
     SHORT   |-> [color |-> "danger", icon |-> "fa-arrow-down", bg |-> "rgba(239, 68, 68, 0.1)"],
     HOLD    |-> [color |-> "warning", icon |-> "fa-pause", bg |-> "rgba(245, 158, 11, 0.1)"],
     NEUTRAL |-> [color |-> "secondary", icon |-> "fa-minus", bg |-> "rgba(148, 163, 184, 0.1)"]]

\* The lookup with the NEUTRAL entry as its default.
style_default_neutral(signal) ==
    LET key == Join(signal_upper(signal))
    IN  IF key \in DOMAIN signal_styles THEN signal_styles[key]
        ELSE signal_styles["NEUTRAL"]

\* signal_styles.get(signal_upper, signal_styles["HOLD"])
style(signal) ==
    LET key == Join(signal_upper(signal))
    IN  IF key \in DOMAIN signal_styles THEN signal_styles[key] ELSE signal_styles["HOLD"]

\* The thresholds with > for >=.
confidence_color_strict(c) ==
    IF c > 70 * ConfScale THEN "success"
    ELSE IF c > 50 * ConfScale THEN "warning" ELSE "danger"

confidence_color(c) ==
    IF c >= 70 * ConfScale THEN "success"
    ELSE IF c >= 50 * ConfScale THEN "warning" ELSE "danger"

\* The bar built when confidence is truthy, not when it is not None.
confidence_bar_if_truthy(confidence) ==
    IF TruthyNum(confidence)
    THEN Div(<<El("Small", <<Text("Confidence")>>, "text-muted"),
               [tag |-> "Progress", value |-> Val(confidence),
                color |-> confidence_color(Val(confidence)),
                className |-> "mt-1", style |-> [height |-> "6px"]],
               El("Small", <<Text(Join(FormatFixed0(Val(confidence)) \o <<"%">>))>>,
                  "text-" \o confidence_color(Val(confidence)) \o " fw-bold")>>,
             "mt-2")
    ELSE NoneNode

confidence_bar(confidence) ==
    IF ~IsNone(confidence)
    THEN Div(<<El("Small", <<Text("Confidence")>>, "text-muted"),
               [tag |-> "Progress", value |-> Val(confidence),
                color |-> confidence_color(Val(confidence)),
                className |-> "mt-1", style |-> [height |-> "6px"]],
               El("Small", <<Text(Join(FormatFixed0(Val(confidence)) \o <<"%">>))>>,
                  "text-" \o confidence_color(Val(confidence)) \o " fw-bold")>>,
             "mt-2")
    ELSE NoneNode

risk_colors == [low |-> "success", medium |-> "warning", high |-> "danger"]

\* The lookup without lower().
risk_color_exact(risk) ==
    LET key == Join(risk)
    IN  IF key \in DOMAIN risk_colors THEN risk_colors[key] ELSE "secondary"

\* risk_colors.get(risk_level.lower(), "secondary")
risk_color(risk) ==
    LET key == Join(Lower(risk))
    IN  IF key \in DOMAIN risk_colors THEN risk_colors[key] ELSE "secondary"

risk_item(risk_level) ==
    IF TruthyStr(risk_level)
    THEN <<El("Span", <<I("fas fa-shield-alt me-1"),
                        Text("Risk: "),
                        El("Span", <<Text(Join(Val(risk_level)))>>,
                           "text-" \o risk_color(Val(risk_level)) \o " fw-bold")>>,
              "me-3")>>
    ELSE <<>>

\* The item emitted when position_size is not None, zero included.
size_item_if_present(position_size) ==
    IF ~IsNone(position_size)
    THEN <<[tag |-> "Span",
            children |-> <<I("fas fa-dollar-sign me-1"),
                           Text("Size: $" \o Join(FormatThousands(Val(position_size))))>>]>>
    ELSE <<>>

size_item(position_size) ==
    IF TruthyNum(position_size)
    THEN <<[tag |-> "Span",
            children |-> <<I("fas fa-dollar-sign me-1"),
                           Text("Size: $" \o Join(FormatThousands(Val(position_size))))>>]>>
    ELSE <<>>

\* meta_items as a list shared between calls: the items of the meta row
\* the previous call returned, then those of this call.
meta_items_shared(risk_level, position_size) ==
    (IF "className" \in DOMAIN ret /\ ret.className = "signal-display-content"
        /\ ret.children[3].tag = "Div"
     THEN ret.children[3].children ELSE <<>>)
        \o risk_item(risk_level) \o size_item(position_size)

meta_items(risk_level, position_size) ==
    risk_item(risk_level) \o size_item(position_size)

\* The row built whether or not there are items.
meta_row_always(risk_level, position_size) ==
    Div(meta_items(risk_level, position_size), "text-muted small mt-2")

meta_row(risk_level, position_size) ==
    IF meta_items(risk_level, position_size) # <<>>
    THEN Div(meta_items(risk_level, position_size), "text-muted small mt-2")
    ELSE NoneNode

signal_header(signal, symbol) ==
    [tag |-> "Div",
     children |-> <<
        Div(<<I("fas " \o style(signal).icon \o " fa-2x text-" \o style(signal).color)>>,
            "signal-icon-wrapper"),
        Div(<<El("H2", <<Text(Join(signal_upper(signal)))>>,
                 "text-" \o style(signal).color \o " mb-0 fw-bold signal-text"),
              El("H5", <<Text(Join(Upper(Val(symbol))))>>, "text-white mb-0")>>,
            "signal-text-wrapper")>>,
     className |-> "d-flex align-items-center justify-content-center gap-3",
     style |-> [backgroundColor |-> style(signal).bg, borderRadius |-> "8px",
                padding |-> "20px"]]

\* The value the call returns, or AttributeError when symbol.upper() is
\* applied to None.
render_signal_display(signal, symbol, confidence, risk_level, position_size) ==
    IF IsNone(symbol) THEN AttributeError
    ELSE Div(<<signal_header(signal, symbol),
               confidence_bar(confidence),
               meta_row(risk_level, position_size)>>,
             "signal-display-content")

RenderArgs(a) ==
    render_signal_display(a.signal, a.symbol, a.confidence, a.risk_level, a.position_size)

(******************************* the inputs ********************************)
Strs(S) == {None} \cup {Some(s) : s \in S}

SignalStrings ==
    {<<>>, <<"B","U","Y">>, <<"b","u","y">>, <<"B","u","y">>, <<"L","O","N","G">>,
     <<"l","o","n","g">>, <<"S","E","L","L">>, <<"s","e","l","l">>,
     <<"S","H","O","R","T">>, <<"s","h","o","r","t">>, <<"H","O","L","D">>,
     <<"h","o","l","d">>, <<"N","E","U","T","R","A","L">>,
     <<"n","e","u","t","r","a","l">>, <<"W","A","I","T">>, <<"w","a","i","t">>,
     <<"B","U","Y","S">>, <<KelvinSign>>, <<"k">>, <<"K">>}
SymbolStrings == {<<>>, <<"b","t","c","u","s","d">>, <<"A","A","P","L">>}
RiskStrings ==
    {<<>>, <<"l","o","w">>, <<"L","o","w">>, <<"M","E","D","I","U","M">>,
     <<"M","e","d","i","u","m">>, <<"H","i","g","h">>, <<"h","i","g","h">>,
     <<"e","x","t","r","e","m","e">>, <<"L","O","W","E","R">>}
ConfidenceValues ==
    {p * ConfScale : p \in 0..100}
      \cup {ConfScale \div 2, ConfScale + (ConfScale \div 2),
            2 * ConfScale + (ConfScale \div 2),
            50 * ConfScale - 1, 50 * ConfScale + 1,
            70 * ConfScale - 1, 70 * ConfScale + 1, 100 * ConfScale - 1}
SizeValues ==
    (0..MaxSmallSize) \cup {-1500, 99, 100, 999, 1000, 1001, 5000, 9999, 10000, 99999,
                            100000, 999999, 1000000, 1234567, 10000000, 999999999,
                            1000000000, 2147483647}

Signals == Strs(SignalStrings)
Symbols == Strs(SymbolStrings)
Confidences == Strs(ConfidenceValues)
RiskLevels == Strs(RiskStrings)
PositionSizes == Strs(SizeValues)

\* A few representatives of every field, absent and present.
FewSignals == {None, Some(<<"S","E","L","L">>), Some(<<"b","u","y">>)}
FewSymbols == {None, Some(<<"b","t","c","u","s","d">>)}
FewConfidences == {None, Some(82 * ConfScale)}
FewRiskLevels == {None, Some(<<>>), Some(<<"H","i","g","h">>)}
FewPositionSizes == {None, Some(0), Some(5000)}

Input(sg, sy, c, r, p) ==
    [signal |-> sg, symbol |-> sy, confidence |-> c, risk_level |-> r, position_size |-> p]

\* The inputs of the calls: every field over its whole range with the
\* other fields over their representatives.
DecisionInputs ==
    {Input(sg, sy, c, r, p) :
        sg \in Signals, sy \in Symbols, c \in FewConfidences,
        r \in FewRiskLevels, p \in FewPositionSizes}
    \cup {Input(sg, sy, c, r, p) :
        sg \in FewSignals, sy \in FewSymbols, c \in Confidences,
        r \in FewRiskLevels, p \in FewPositionSizes}
    \cup {Input(sg, sy, c, r, p) :
        sg \in FewSignals, sy \in FewSymbols, c \in FewConfidences,
        r \in RiskLevels, p \in PositionSizes}

\* The inputs of the traced calls.
TracedInputs ==
    {Input(sg, Some(<<"b","t","c","u","s","d">>), None, r, p) :
        sg \in {None, Some(<<"b","u","y">>)},
        r \in {None, Some(<<"H","i","g","h">>)}, p \in {None, Some(5000)}}

NoArgs == [signal |-> None, symbol |-> None, confidence |-> None,
           risk_level |-> None, position_size |-> None]

Request(f, a) == [op |-> f, args |-> a]

\* The calls the host may make.
Requests ==
    {Request(f, NoArgs) :
        f \in {"create_signal_card", "create_compact_decision_panel",
               "create_decision_panel"}}
    \cup {Request("render_signal_display", a) : a \in DecisionInputs}

\* The calls of a traced run.
TracedRequests ==
    {Request(f, NoArgs) :
        f \in {"create_signal_card", "create_compact_decision_panel",
               "create_decision_panel"}}
    \cup {Request("render_signal_display", a) : a \in TracedInputs}

(******************************** the calls ********************************)
\* pending: the calls the host is about to make, in order; ret: the value
\* the last call returned; log: the calls made so far with what each
\* returned.
Init ==
    /\ pending \in {<<r>> : r \in Requests}
    /\ ret = NoneNode
    /\ log = <<>>

\* A run of MaxLog calls.
TracedInit ==
    /\ pending \in [1..MaxLog -> TracedRequests]
    /\ ret = NoneNode
    /\ log = <<>>

\* The head of pending is a call of f; it returns r.
Call(f, r) ==
    /\ pending # <<>>
    /\ Head(pending).op = f
    /\ pending' = Tail(pending)
    /\ ret' = r
    /\ log' = Append(log, [op |-> f, args |-> Head(pending).args, ret |-> r])

CreateSignalCard ==
    /\ pending # <<>>
    /\ Call("create_signal_card", create_signal_card)

CreateCompactDecisionPanel ==
    /\ pending # <<>>
    /\ Call("create_compact_decision_panel", create_compact_decision_panel)

CreateDecisionPanel ==
    /\ pending # <<>>
    /\ Call("create_decision_panel", create_decision_panel)

RenderSignalDisplay ==
    /\ pending # <<>>
    /\ Call("render_signal_display", RenderArgs(Head(pending).args))

Next ==
    \/ CreateSignalCard
    \/ CreateCompactDecisionPanel
    \/ CreateDecisionPanel
    \/ RenderSignalDisplay

Spec == Init /\ [][Next]_vars

TracedSpec == TracedInit /\ [][Next]_vars

(************************* reading the last call ***************************)
Last == log[Len(log)]
\* The last call was render_signal_display.
Rendered == log # <<>> /\ Last.op = "render_signal_display"
\* ... and it returned a display node.
Returned == Rendered /\ ret.tag = "Div"
In == Last.args

HasClass(n, c) == "className" \in DOMAIN n /\ n.className = c
IconNode(t) == t.children[1].children[1].children[1]
LabelNode(t) == t.children[1].children[2].children[1]
ConfidenceBlocks(t) == {n \in SubNodes(t) : n.tag = "Div" /\ HasClass(n, "mt-2")}
ProgressNodes(t) == {n \in SubNodes(t) : n.tag = "Progress"}
MetaRows(t) == {n \in SubNodes(t) : n.tag = "Div" /\ HasClass(n, "text-muted small mt-2")}
RiskItems(t) == {n \in SubNodes(t) : n.tag = "Span" /\ HasClass(n, "me-3")}
SizeItems(t) ==
    {n \in SubNodes(t) : /\ n.tag = "Span"
                         /\ Len(n.children) = 2
                         /\ n.children[1] = I("fas fa-dollar-sign me-1")}
WithSignal(a, s) == [a EXCEPT !.signal = s]

(********************************** C1 *************************************)
\* C1: every call of render_signal_display, whichever of signal, symbol,
\* confidence, riskLevel and positionSize are absent or empty, returns a
\* display node and raises no error.
C1_NeverFails == Rendered => ret.tag = "Div"

(********************************** C2 *************************************)
\* The styling the table gives a displayed label: colour, icon, background.
C2_StyleOf(label) ==
    CASE label \in {"BUY", "LONG"} ->
            <<"success", "fa-arrow-up", "rgba(16, 185, 129, 0.1)">>
      [] label \in {"SELL", "SHORT"} ->
            <<"danger", "fa-arrow-down", "rgba(239, 68, 68, 0.1)">>
      [] label = "NEUTRAL" ->
            <<"secondary", "fa-minus", "rgba(148, 163, 184, 0.1)">>
      [] OTHER ->
            <<"warning", "fa-pause", "rgba(245, 158, 11, 0.1)">>

C2_Recognised == {"BUY", "LONG", "SELL", "SHORT", "HOLD", "NEUTRAL"}

\* The colour, icon and background of the tree t are those of label.
C2_Styled(t, label) ==
    /\ IconNode(t).className =
          "fas " \o C2_StyleOf(label)[2] \o " fa-2x text-" \o C2_StyleOf(label)[1]
    /\ LabelNode(t).className =
          "text-" \o C2_StyleOf(label)[1] \o " mb-0 fw-bold signal-text"
    /\ t.children[1].style.backgroundColor = C2_StyleOf(label)[3]

\* The uppercased signal, "HOLD" for an absent or empty one.
C2_Label == IF TruthyStr(In.signal) THEN Join(Upper(Val(In.signal))) ELSE "HOLD"

C2_HoldInput == WithSignal(In, Some(<<"H","O","L","D">>))

\* C2 as stated: the six recognised signals are styled by the table, and
\* for any other signal the whole tree equals the tree of signal = "HOLD".
C2_UnknownSignalIsHold ==
    Returned =>
        /\ C2_Label \in C2_Recognised => C2_Styled(ret, C2_Label)
        /\ C2_Label \notin C2_Recognised => ret = RenderArgs(C2_HoldInput)

\* C2 as amended: the recognised signals are styled by the table; any
\* other signal gets the colour, icon and background of HOLD and is
\* displayed as its own uppercased text; an absent or empty signal gives
\* the whole tree of signal = "HOLD".
C2_SignalStyling ==
    Returned =>
        /\ LabelNode(ret).children = <<Text(C2_Label)>>
        /\ C2_Styled(ret, C2_Label)
        /\ C2_Label \notin C2_Recognised => C2_Styled(ret, "HOLD")
        /\ ~TruthyStr(In.signal) => ret = RenderArgs(C2_HoldInput)

\* An unrecognised, non-empty signal was rendered.
C2_Witness == Returned /\ In.signal = Some(<<"W","A","I","T">>)

(********************************** C3 *************************************)
\* C3: whenever confidence is present, the progress bar and the percentage
\* label have the same colour: success from 70 up, warning from 50 up to
\* but not including 70, danger below 50.
C3_ConfidenceThresholds ==
    Returned /\ ~IsNone(In.confidence) =>
        LET c == Val(In.confidence)
            bar == ret.children[2].children[2]
            pct == ret.children[2].children[3]
        IN  /\ bar.tag = "Progress"
            /\ pct.className = "text-" \o bar.color \o " fw-bold"
            /\ bar.color \in {"success", "warning", "danger"}
            /\ bar.color = "success" <=> c >= 70 * ConfScale
            /\ bar.color = "warning" <=> (50 * ConfScale <= c /\ c < 70 * ConfScale)
            /\ bar.color = "danger" <=> c < 50 * ConfScale

\* A confidence of exactly 70 was rendered.
C3_Witness == Returned /\ In.confidence = Some(70 * ConfScale)

(********************************** C6 *************************************)
C6_IsAscii(s) ==
    \A i \in DOMAIN s : IsIn(s[i], LowerLetters) \/ IsIn(s[i], UpperLetters)

\* C6 as stated: for every signal string s, the lowercased and the
\* uppercased s give equal trees, all other fields equal.
C6_CaseInsensitive ==
    Returned /\ ~IsNone(In.signal) =>
        RenderArgs(WithSignal(In, Some(Lower(Val(In.signal)))))
            = RenderArgs(WithSignal(In, Some(Upper(Val(In.signal)))))

\* C6 as amended: for every signal string s of ASCII letters, s, the
\* lowercased s and the uppercased s all give equal trees.
C6_CaseInsensitiveAscii ==
    Returned /\ ~IsNone(In.signal) /\ C6_IsAscii(Val(In.signal)) =>
        /\ ret = RenderArgs(WithSignal(In, Some(Lower(Val(In.signal)))))
        /\ ret = RenderArgs(WithSignal(In, Some(Upper(Val(In.signal)))))

\* A lowercase "buy" was rendered.
C6_Witness == Returned /\ In.signal = Some(<<"b","u","y">>)

(********************************** C4 *************************************)
C4_ItemEmitted == TruthyStr(In.risk_level) \/ TruthyNum(In.position_size)

\* C4: the tree holds a meta-row node exactly when a risk item or a size
\* item was emitted; with none emitted there is no meta-row node anywhere
\* in the tree, neither an empty container nor a stand-in node: the slot
\* after the confidence slot holds None.
C4_MetaRowOmission ==
    Returned =>
        /\ MetaRows(ret) # {} <=> C4_ItemEmitted
        /\ \A n \in MetaRows(ret) : n.children # <<>>
        /\ C4_ItemEmitted => MetaRows(ret) = {ret.children[3]}
        /\ ~C4_ItemEmitted =>
              /\ ret.children[3] = NoneNode
              /\ RiskItems(ret) = {} /\ SizeItems(ret) = {}
              /\ \A n \in SubNodes(ret) : n.tag = "Div" => n.children # <<>>

\* A call with riskLevel and positionSize both absent returned.
C4_Witness == Returned /\ IsNone(In.risk_level) /\ IsNone(In.position_size)

C7_SameIgnoringCase(s, word) ==
    /\ Len(s) = Len(word)
    /\ \A i \in DOMAIN s :
          \/ s[i] = word[i]
          \/ \E k \in DOMAIN LowerLetters :
                {s[i], word[i]} = {LowerLetters[k], UpperLetters[k]}

C7_Colour(s) ==
    IF C7_SameIgnoringCase(s, <<"l","o","w">>) THEN "success"
    ELSE IF C7_SameIgnoringCase(s, <<"m","e","d","i","u","m">>) THEN "warning"
    ELSE IF C7_SameIgnoringCase(s, <<"h","i","g","h">>) THEN "danger"
    ELSE "secondary"

\* The risk item of riskLevel s.
C7_Item(s) ==
    El("Span", <<I("fas fa-shield-alt me-1"), Text("Risk: "),
                 El("Span", <<Text(Join(s))>>, "text-" \o C7_Colour(s) \o " fw-bold")>>,
       "me-3")

\* C7 as stated: whenever riskLevel is present, the empty string included,
\* the risk item is emitted, with the value as supplied and the colour of
\* its level; it is omitted only when riskLevel is absent.
C7_RiskItemWheneverPresent ==
    Returned =>
        /\ ~IsNone(In.risk_level) => RiskItems(ret) = {C7_Item(Val(In.risk_level))}
        /\ IsNone(In.risk_level) => RiskItems(ret) = {}

\* C7 as amended: the risk item is emitted, with the value as supplied and
\* the colour of its level, whenever riskLevel is present and not empty;
\* it is omitted when riskLevel is absent or the empty string.
C7_RiskItemWhenNonEmpty ==
    Returned =>
        /\ TruthyStr(In.risk_level) =>
              /\ RiskItems(ret) = {C7_Item(Val(In.risk_level))}
              /\ ret.children[3].children[1] = C7_Item(Val(In.risk_level))
        /\ ~TruthyStr(In.risk_level) => RiskItems(ret) = {}

\* A riskLevel of "MEDIUM" was rendered.
C7_Witness == Returned /\ In.risk_level = Some(<<"M","E","D","I","U","M">>)

(********************************** C8 *************************************)
\* Three digits of a number below 1000, zeros kept.
C8_Pad3(n) ==
    <<DigitChars[(n \div 100) + 1], DigitChars[((n \div 10) % 10) + 1],
      DigitChars[(n % 10) + 1]>>

\* The digits of n in groups of three from the right, commas between.
RECURSIVE C8_Grouped(_)
C8_Grouped(n) ==
    IF n < 1000 THEN Digits(n)
    ELSE C8_Grouped(n \div 1000) \o <<",">> \o C8_Pad3(n % 1000)

C8_SizeText(t) == (CHOOSE n \in SizeItems(t) : TRUE).children[2].value

C9_ConfidenceBlockPresence ==
    Returned =>
        /\ ConfidenceBlocks(ret) # {} <=> ~IsNone(In.confidence)
        /\ ~IsNone(In.confidence) =>
              /\ ConfidenceBlocks(ret) = {ret.children[2]}
              /\ Len(ret.children[2].children) = 3
              /\ ret.children[2].children[1] = El("Small", <<Text("Confidence")>>, "text-muted")
              /\ ret.children[2].children[2].tag = "Progress"
              /\ ret.children[2].children[2].value = Val(In.confidence)
              /\ ret.children[2].children[3].tag = "Small"
        /\ In.confidence = Some(0) =>
              /\ ret.children[2].children[2].color = "danger"
              /\ ret.children[2].children[3] = El("Small", <<Text("0%")>>, "text-danger fw-bold")
        /\ IsNone(In.confidence) =>
              /\ ret.children[2] = NoneNode
              /\ ProgressNodes(ret) = {}
              /\ Text("Confidence") \notin SubNodes(ret)

\* A confidence of 0 was rendered.
C9_Witness == Returned /\ In.confidence = Some(0)

(********************************** C10 ************************************)
\* C10: the size item is emitted exactly when positionSize is present and
\* not zero; when a risk item and a size item are both emitted they are
\* the two children of the one meta row, the risk item first.
C10_SizeItemPresence ==
    Returned =>
        /\ SizeItems(ret) # {} <=> (~IsNone(In.position_size) /\ Val(In.position_size) # 0)
        /\ Cardinality(SizeItems(ret)) <= 1
        /\ RiskItems(ret) # {} /\ SizeItems(ret) # {} =>
              /\ Cardinality(MetaRows(ret)) = 1
              /\ Len(ret.children[3].children) = 2
              /\ ret.children[3].children[1] \in RiskItems(ret)
              /\ ret.children[3].children[2] \in SizeItems(ret)

\* A call with a riskLevel and a non-zero positionSize returned.
C10_Witness == Returned /\ TruthyStr(In.risk_level) /\ TruthyNum(In.position_size)

====
